---- MODULE Spec2Model ----
(***************************************************************************)
(* cli-recorder (src/src/main.rs): a command-line recorder that selects an *)
(* input device, records f32 audio through a cpal input stream into a      *)
(* 16-bit WAV file (hound) and stops on Ctrl-C.                            *)
(*                                                                         *)
(* Three execution contexts are modelled:                                  *)
(*   - the control thread (main, parse_args_and_select_device,             *)
(*     make_unique_filename, record_audio), position in pc;                *)
(*   - the audio thread running the input callback, position in cbpc;      *)
(*   - the ctrlc handler and the stream's error callback, one step each.   *)
(* The writer is Arc<Mutex<Option<WavWriter>>>: the mutex is `locked`,     *)
(* the Option is `sink`, the samples the WavWriter took are `wav`.         *)
(***************************************************************************)
EXTENDS Integers, Sequences, FiniteSets, TLC

VARIABLES
    pc,           \* control thread: the statement it executes next
    exitCode,     \* -1 while the process runs, then its exit status
    err,          \* the error main returned, "none" otherwise
    out,          \* stdout, the sequence of messages printed
    args,         \* Args { device, file } while parse_args_and_select_device runs
    devices,      \* host.input_devices() while parse_args_and_select_device runs
    device,       \* the selected cpal::Device
    file,         \* the requested output path
    filename,     \* the path record_audio creates
    i,            \* make_unique_filename's counter
    fs,           \* the paths that exist in the file system
    overwrote,    \* history: WavWriter::create opened a path that existed
    config,       \* sample format of default_input_config()
    sink,         \* the Option<WavWriter> inside the mutex
    locked,       \* the writer mutex
    wav,          \* the samples the WavWriter accepted
    finalized,    \* number of WavWriter::finalize calls that succeeded
    running,      \* the AtomicBool
    handler,      \* whether the ctrlc handler is registered
    interrupts,   \* interrupt signals delivered so far
    stream,       \* the cpal stream
    cbpc,         \* audio thread: position inside the input callback
    cbBuf,        \* the buffer (data) of the current callback invocation
    cbIdx,        \* index of the next sample of the for loop
    cbOk,         \* history: samples of the current buffer stored by the sink
    callbacks,    \* callback invocations so far
    errs,         \* stream errors logged by the error callback
    offered,      \* history: every sample handed to write_sample, in order
    expected,     \* history: quantized buffers of the invocations that found Some
    failedWrites, \* history: write_sample calls that returned Err
    cbAfterErr    \* history: the current invocation began after a stream error

vars == <<pc, exitCode, err, out, args, devices, device, file, filename, i, fs, overwrote,
          config,
          sink, locked, wav, finalized, running, handler, interrupts, stream,
          cbpc, cbBuf, cbIdx, cbOk, callbacks, errs, offered, expected,
          failedWrites, cbAfterErr>>

(***************************************************************************)
(* Bounds of the model.                                                    *)
(***************************************************************************)
MaxCallbacks == 2
MaxWriteFailures == 1
MaxInterrupts == 2
MaxStreamErrors == 1

(***************************************************************************)
(* Program constants.                                                      *)
(***************************************************************************)
I16Max == 32767
I16Min == -32768

(***************************************************************************)
(* Strings are sequences of characters; to_lowercase maps each character.  *)
(***************************************************************************)
LowerChar(c) ==
    CASE c = "M" -> "m"
      [] c = "I" -> "i"
      [] c = "C" -> "c"
      [] c = "U" -> "u"
      [] OTHER -> c

to_lowercase(s) == [k \in 1..Len(s) |-> LowerChar(s[k])]

\* str::contains: sub occurs in s as a contiguous run.
contains(s, sub) ==
    \E k \in 1..(Len(s) - Len(sub) + 1) : SubSeq(s, k, k + Len(sub) - 1) = sub

(***************************************************************************)
(* Devices of the host: a name (or a name() error) each.  Hosts are the    *)
(* enumerations host.input_devices() may return.                           *)
(***************************************************************************)
Dev(n, ok) == [name |-> n, nameOk |-> ok]
UsbMic == Dev(<<"U", " ", "M", "i", "c">>, TRUE)
BuiltIn == Dev(<<"I", "n", " ", "m", "i", "c">>, TRUE)
LineIn == Dev(<<"I", "n">>, TRUE)
Broken == Dev(<<>>, FALSE)
NoDevice == Dev(<<>>, FALSE)

Hosts == { <<>>, <<LineIn>>, <<LineIn, UsbMic, BuiltIn>>, <<Broken, BuiltIn, UsbMic>> }

Queries == { <<"m", "i", "c">>, <<"M", "I", "C">>, <<"u">> }

\* The closure of filter(): name().map(|n| n.to_lowercase().contains(q)).unwrap_or(false)
Matches(dev, q) == dev.nameOk /\ contains(to_lowercase(dev.name), q)

\* devices.filter(..).next(): index of the first match in enumeration order, 0 if none.
FirstMatch(devs, q) ==
    IF \E k \in 1..Len(devs) : Matches(devs[k], q)
    THEN CHOOSE k \in 1..Len(devs) :
            /\ Matches(devs[k], q)
            /\ \A j \in 1..(k - 1) : ~Matches(devs[j], q)
    ELSE 0

(***************************************************************************)
(* Paths.  A path is its parent directory, its stem as a base name plus    *)
(* the "_k" suffixes appended to it, and its extension ("" when it has     *)
(* none): [dir |-> "d", base |-> "a", sfx |-> <<1>>, ext |-> "wav"] is     *)
(* d/a_1.wav.  Two paths are the same string iff the records are equal.    *)
(***************************************************************************)
P(d, b, x, e) == [dir |-> d, base |-> b, sfx |-> x, ext |-> e]
NoPath == P("", "", <<>>, "")

\* format!("{}_{}.{}", stem, i, ext) with stem = path.file_stem() and
\* ext = path.extension() or "wav": the parent directory is not part of it.
Candidate(path, k) ==
    P("", path.base, Append(path.sfx, k), IF path.ext = "" THEN "wav" ELSE path.ext)

\* file_stem() is None for a path that ends in "..", "." or the root.
HasFileName(path) == path.base # ""
DotDot == P("..", "", <<>>, "")

\* The exit status of a Rust process whose main thread panics.
PanicStatus == 101

\* The --file arguments and the file systems the runs start from.
Files == { P("", "a", <<>>, "wav"), P("d", "a", <<>>, "wav") }

InitialFs ==
    { { P("", "a", <<>>, "wav") },
      { P("d", "a", <<>>, "wav"), P("", "a", <<1>>, "wav") } }

(***************************************************************************)
(* Samples.  An f32 sample is modelled by its numerator over 4, so -3 is   *)
(* -0.75 and 6 is 1.5; such values and their products with 32767 are       *)
(* exact in f32.  The two infinities lie beyond every finite sample of the *)
(* model, and NaN is a value of its own that no comparison is made with.   *)
(***************************************************************************)
PosInf == 1000000000
NegInf == -1000000000
NaN == 2000000000

\* f32::max and f32::min: when one argument is NaN the other is returned.
Max(a, b) == IF a = NaN THEN b ELSE IF b = NaN THEN a ELSE IF a >= b THEN a ELSE b
Min(a, b) == IF a = NaN THEN b ELSE IF b = NaN THEN a ELSE IF a <= b THEN a ELSE b

\* Integer division truncating toward zero, as the `as i16` cast truncates.
TruncDiv(a, b) == IF a >= 0 THEN a \div b ELSE -((-a) \div b)

\* The cast of a finite f32 (numerator over 4) to i16: truncation toward zero,
\* saturating at the ends of the i16 range.
AsI16(x) ==
    LET t == TruncDiv(x, 4)
    IN  IF t > I16Max THEN I16Max ELSE IF t < I16Min THEN I16Min ELSE t

\* Mutant of Clamp: the bounds are -2.0 and 2.0.
ClampLoose(s) == Min(Max(s, -8), 8)

\* sample.max(-1.0).min(1.0)
Clamp(s) == Min(Max(s, -4), 4)

\* (clamped * i16::MAX as f32) as i16
Quantize(s) == AsI16(Clamp(s) * I16Max)

QuantizeAll(buf) == [k \in 1..Len(buf) |-> Quantize(buf[k])]

\* The buffers the host may hand to the callback: an empty one, 0.5, and
\* -0.75 followed by 1.5 (out of range).
Buffers == { <<>>, <<2>>, <<-3, 6>> }

SampleFormats == {"F32", "I16", "U16"}

(***************************************************************************)
(* Initial state: the process starts in main; nothing is created yet.      *)
(* An Option is a set with at most one element.                            *)
(***************************************************************************)
NoArgs == [device |-> {}, file |-> {}]

Init ==
    /\ pc = "parse"
    /\ exitCode = -1
    /\ err = "none"
    /\ out = <<>>
    /\ args = NoArgs
    /\ devices = <<>>
    /\ device = NoDevice
    /\ file = NoPath
    /\ filename = NoPath
    /\ i = 0
    /\ fs \in InitialFs
    /\ overwrote = FALSE
    /\ config = "unset"
    /\ sink = "Absent"
    /\ locked = FALSE
    /\ wav = <<>>
    /\ finalized = 0
    /\ running = TRUE
    /\ handler = FALSE
    /\ interrupts = 0
    /\ stream = "none"
    /\ cbpc = "idle"
    /\ cbBuf = <<>>
    /\ cbIdx = 0
    /\ cbOk = 0
    /\ callbacks = 0
    /\ errs = 0
    /\ offered = <<>>
    /\ expected = <<>>
    /\ failedWrites = 0
    /\ cbAfterErr = FALSE

Alive == exitCode = -1

ctlVars == <<pc, exitCode, err, out>>
cliVars == <<args, devices, device, file, filename, i>>
sinkVars == <<sink, locked, wav, finalized>>
sigVars == <<running, handler, interrupts>>
cbVars == <<cbpc, cbBuf, cbIdx, cbOk, callbacks, cbAfterErr>>
histVars == <<offered, expected, failedWrites>>

\* main returns Err(e) (or the process exits) with a failure status.
Fail(e) ==
    /\ pc' = "done"
    /\ exitCode' = 1
    /\ err' = e

(***************************************************************************)
(* parse_args_and_select_device and print_input_device_list.               *)
(***************************************************************************)
\* Mutant of ParseArgs: with exactly one option given the device list is shown.
ParseArgsLenient ==
    /\ Alive /\ pc = "parse"
    /\ \E d \in {{}} \cup {{q} : q \in Queries}, f \in {{}} \cup {{x} : x \in Files} :
        /\ args' = [device |-> d, file |-> f]
        /\ \/ /\ d = {} \/ f = {}
              /\ out' = Append(out, "Usage")
              /\ pc' = "list"
              /\ UNCHANGED <<exitCode, err>>
           \/ /\ (d = {}) # (f = {})
              /\ Fail("UsageError")
              /\ out' = out
           \/ /\ d # {} /\ f # {}
              /\ pc' = "select"
              /\ UNCHANGED <<exitCode, err, out>>
    /\ UNCHANGED <<devices, device, file, filename, i, fs, overwrote, config, stream, errs>>
    /\ UNCHANGED <<sinkVars, sigVars, cbVars, histVars>>

\* Lines 123-134: Args::parse() and the two tests on the options.
ParseArgs ==
    /\ Alive /\ pc = "parse"
    /\ \E d \in {{}} \cup {{q} : q \in Queries}, f \in {{}} \cup {{x} : x \in Files} :
        /\ args' = [device |-> d, file |-> f]
        /\ \/ /\ d = {} /\ f = {}
              /\ out' = Append(out, "Usage")
              /\ pc' = "list"
              /\ UNCHANGED <<exitCode, err>>
           \/ /\ (d = {}) # (f = {})
              /\ Fail("UsageError")
              /\ out' = out
           \/ /\ d # {} /\ f # {}
              /\ pc' = "select"
              /\ UNCHANGED <<exitCode, err, out>>
    /\ UNCHANGED <<devices, device, file, filename, i, fs, overwrote, config, stream, errs>>
    /\ UNCHANGED <<sinkVars, sigVars, cbVars, histVars>>

PrintInputDeviceList ==
    /\ Alive /\ pc = "list"
    /\ \/ /\ Fail("EnumerationError")
          /\ out' = out
       \/ \E h \in Hosts :
          /\ out' = Append(out, "Input audio device list")
          /\ pc' = "done"
          /\ exitCode' = 0
          /\ err' = err
    /\ UNCHANGED <<cliVars, fs, overwrote, config, stream, errs>>
    /\ UNCHANGED <<sinkVars, sigVars, cbVars, histVars>>

\* Lines 136-140: the arguments are unwrapped and host.input_devices()? is called.
EnumerateDevices ==
    /\ Alive /\ pc = "select"
    /\ \/ /\ Fail("EnumerationError")
          /\ devices' = devices
       \/ \E h \in Hosts :
          /\ devices' = h
          /\ pc' = "filter"
          /\ UNCHANGED <<exitCode, err>>
    /\ UNCHANGED <<out, args, device, file, filename, i, fs, overwrote, config, stream, errs>>
    /\ UNCHANGED <<sinkVars, sigVars, cbVars, histVars>>

\* Mutant of SelectDevice: the query is used without to_lowercase.
SelectDeviceCaseSensitive ==
    /\ Alive /\ pc = "filter"
    /\ \E q \in args.device, f \in args.file :
          LET k == FirstMatch(devices, q)
          IN  IF k = 0
              THEN /\ Fail("NoMatchingDevice")
                   /\ UNCHANGED <<args, devices, device, file>>
              ELSE /\ device' = devices[k]
                   /\ file' = f
                   /\ args' = NoArgs
                   /\ devices' = <<>>
                   /\ pc' = "unique"
                   /\ UNCHANGED <<exitCode, err>>
    /\ UNCHANGED <<out, filename, i, fs, overwrote, config, stream, errs>>
    /\ UNCHANGED <<sinkVars, sigVars, cbVars, histVars>>

\* Lines 137, 142-151: filter(..).next().ok_or(..)? and the return; args, host
\* and the iterator are locals of the function.
SelectDevice ==
    /\ Alive /\ pc = "filter"
    /\ \E q \in args.device, f \in args.file :
          LET k == FirstMatch(devices, to_lowercase(q))
          IN  IF k = 0
              THEN /\ Fail("NoMatchingDevice")
                   /\ UNCHANGED <<args, devices, device, file>>
              ELSE /\ device' = devices[k]
                   /\ file' = f
                   /\ args' = NoArgs
                   /\ devices' = <<>>
                   /\ pc' = "unique"
                   /\ UNCHANGED <<exitCode, err>>
    /\ UNCHANGED <<out, filename, i, fs, overwrote, config, stream, errs>>
    /\ UNCHANGED <<sinkVars, sigVars, cbVars, histVars>>

(***************************************************************************)
(* make_unique_filename.                                                   *)
(***************************************************************************)
\* Lines 106-112: the exists() test, then file_stem().unwrap(), which panics
\* (exit status 101) on a path without a file name, then extension() and i = 1.
MakeUniqueExists ==
    /\ Alive /\ pc = "unique"
    /\ IF file \notin fs
       THEN /\ filename' = file
            /\ pc' = "print"
            /\ UNCHANGED <<i, exitCode, err>>
       ELSE IF ~HasFileName(file)
            THEN /\ pc' = "done"
                 /\ exitCode' = PanicStatus
                 /\ err' = "Panic"
                 /\ UNCHANGED <<i, filename>>
            ELSE /\ i' = 1
                 /\ pc' = "probe"
                 /\ UNCHANGED <<filename, exitCode, err>>
    /\ UNCHANGED <<out, args, devices, device, file, fs, overwrote, config, stream, errs>>
    /\ UNCHANGED <<sinkVars, sigVars, cbVars, histVars>>

\* Mutant of MakeUniqueProbe: the counter is not advanced.
MakeUniqueProbeStuck ==
    /\ Alive /\ pc = "probe"
    /\ IF Candidate(file, i) \notin fs
       THEN /\ filename' = Candidate(file, i)
            /\ pc' = "print"
            /\ i' = i
       ELSE /\ i' = i
            /\ UNCHANGED <<filename, pc>>
    /\ UNCHANGED <<exitCode, err, out, args, devices, device, file, fs, overwrote, config, stream, errs>>
    /\ UNCHANGED <<sinkVars, sigVars, cbVars, histVars>>

MakeUniqueProbe ==
    /\ Alive /\ pc = "probe"
    /\ IF Candidate(file, i) \notin fs
       THEN /\ filename' = Candidate(file, i)
            /\ pc' = "print"
            /\ i' = i
       ELSE /\ i' = i + 1
            /\ UNCHANGED <<filename, pc>>
    /\ UNCHANGED <<exitCode, err, out, args, devices, device, file, fs, overwrote, config, stream, errs>>
    /\ UNCHANGED <<sinkVars, sigVars, cbVars, histVars>>

\* main, lines 31-32: device.name()? may fail.
PrintSelected ==
    /\ Alive /\ pc = "print"
    /\ \/ /\ Fail("DeviceNameError")
          /\ out' = out
       \/ /\ out' = out \o <<"Selected device", "Output file">>
          /\ pc' = "negotiate"
          /\ UNCHANGED <<exitCode, err>>
    /\ UNCHANGED <<cliVars, fs, overwrote, config, stream, errs>>
    /\ UNCHANGED <<sinkVars, sigVars, cbVars, histVars>>

(***************************************************************************)
(* record_audio, control thread.                                           *)
(***************************************************************************)
\* Mutant of Negotiate: the sample format is not checked.
NegotiateNoCheck ==
    /\ Alive /\ pc = "negotiate"
    /\ \/ /\ Fail("DefaultStreamConfigError")
          /\ config' = config
       \/ \E c \in SampleFormats :
          /\ config' = c
          /\ pc' = "create"
          /\ UNCHANGED <<exitCode, err>>
    /\ UNCHANGED <<out, cliVars, fs, overwrote, stream, errs>>
    /\ UNCHANGED <<sinkVars, sigVars, cbVars, histVars>>

\* Lines 40-45: default_input_config()? and the f32 check.
Negotiate ==
    /\ Alive /\ pc = "negotiate"
    /\ \/ /\ Fail("DefaultStreamConfigError")
          /\ config' = config
       \/ \E c \in SampleFormats :
          /\ config' = c
          /\ IF c # "F32"
             THEN Fail("UnsupportedFormat")
             ELSE /\ pc' = "create"
                  /\ UNCHANGED <<exitCode, err>>
    /\ UNCHANGED <<out, cliVars, fs, overwrote, stream, errs>>
    /\ UNCHANGED <<sinkVars, sigVars, cbVars, histVars>>

\* Lines 47-55: hound::WavWriter::create(&filename, spec)? inside Arc<Mutex<Some(..)>>.
CreateWriter ==
    /\ Alive /\ pc = "create"
    /\ \/ /\ Fail("IoError")
          /\ UNCHANGED <<fs, overwrote, sink>>
       \/ /\ fs' = fs \cup {filename}
          /\ overwrote' = (filename \in fs)
          /\ sink' = "Some"
          /\ pc' = "handler"
          /\ UNCHANGED <<exitCode, err>>
    /\ UNCHANGED <<out, cliVars, config, stream, errs, locked, wav, finalized>>
    /\ UNCHANGED <<sigVars, cbVars, histVars>>

\* Lines 57-63: the flag starts true; ctrlc::set_handler(..)? may fail.
SetHandler ==
    /\ Alive /\ pc = "handler"
    /\ running' = TRUE
    /\ \/ /\ Fail("CtrlcError")
          /\ handler' = handler
       \/ /\ handler' = TRUE
          /\ pc' = "announce"
          /\ UNCHANGED <<exitCode, err>>
    /\ UNCHANGED <<out, cliVars, fs, overwrote, config, stream, errs, interrupts>>
    /\ UNCHANGED <<sinkVars, cbVars, histVars>>

\* Lines 65-70: println!("Recording... (Ctrl+C to stop) ...").
AnnounceRecording ==
    /\ Alive /\ pc = "announce"
    /\ out' = Append(out, "Recording")
    /\ pc' = "build"
    /\ UNCHANGED <<exitCode, err, cliVars, fs, overwrote, config, stream, errs>>
    /\ UNCHANGED <<sinkVars, sigVars, cbVars, histVars>>

\* Lines 72-87: device.build_input_stream(..)?.
BuildInputStream ==
    /\ Alive /\ pc = "build"
    /\ \/ /\ Fail("BuildStreamError")
          /\ stream' = stream
       \/ /\ stream' = "built"
          /\ pc' = "play"
          /\ UNCHANGED <<exitCode, err>>
    /\ UNCHANGED <<out, cliVars, fs, overwrote, config, errs>>
    /\ UNCHANGED <<sinkVars, sigVars, cbVars, histVars>>

\* Mutant of StreamPlay: the flag is set to true again once the stream has started.
StreamPlayRearm ==
    /\ Alive /\ pc = "play"
    /\ \/ /\ Fail("PlayStreamError")
          /\ UNCHANGED <<stream, running>>
       \/ /\ stream' = "playing"
          /\ running' = TRUE
          /\ pc' = "loop"
          /\ UNCHANGED <<exitCode, err>>
    /\ UNCHANGED <<out, cliVars, fs, overwrote, config, errs, handler, interrupts>>
    /\ UNCHANGED <<sinkVars, cbVars, histVars>>

\* Line 89: stream.play()?.
StreamPlay ==
    /\ Alive /\ pc = "play"
    /\ \/ /\ Fail("PlayStreamError")
          /\ stream' = stream
       \/ /\ stream' = "playing"
          /\ pc' = "loop"
          /\ UNCHANGED <<exitCode, err>>
    /\ UNCHANGED <<out, cliVars, fs, overwrote, config, errs>>
    /\ UNCHANGED <<sinkVars, sigVars, cbVars, histVars>>

\* Line 91 (and 95 on exit): while running.load(SeqCst).
RunLoopLoad ==
    /\ Alive /\ pc = "loop"
    /\ IF running
       THEN /\ pc' = "sleep"
            /\ out' = out
       ELSE /\ out' = Append(out, "Stopping and saving")
            /\ pc' = "lock"
    /\ UNCHANGED <<exitCode, err, cliVars, fs, overwrote, config, stream, errs>>
    /\ UNCHANGED <<sinkVars, sigVars, cbVars, histVars>>

\* Line 92: thread::sleep(100ms).
RunLoopSleep ==
    /\ Alive /\ pc = "sleep"
    /\ pc' = "loop"
    /\ UNCHANGED <<exitCode, err, out, cliVars, fs, overwrote, config, stream, errs>>
    /\ UNCHANGED <<sinkVars, sigVars, cbVars, histVars>>

\* Mutant of LockWriter: the control thread goes on without waiting for the mutex.
LockWriterNoWait ==
    /\ Alive /\ pc = "lock"
    /\ locked' = TRUE
    /\ pc' = "take"
    /\ UNCHANGED <<exitCode, err, out, cliVars, fs, overwrote, config, stream, errs>>
    /\ UNCHANGED <<sink, wav, finalized, sigVars, cbVars, histVars>>

\* Line 96: writer.lock().unwrap() blocks until the mutex is free.
LockWriter ==
    /\ Alive /\ pc = "lock"
    /\ ~locked
    /\ locked' = TRUE
    /\ pc' = "take"
    /\ UNCHANGED <<exitCode, err, out, cliVars, fs, overwrote, config, stream, errs>>
    /\ UNCHANGED <<sink, wav, finalized, sigVars, cbVars, histVars>>

\* Mutant of TakeWriter: the writer is used in place (as_mut) and not taken.
TakeWriterKeep ==
    /\ Alive /\ pc = "take"
    /\ sink' = sink
    /\ pc' = IF sink = "Some" THEN "finalize" ELSE "saved"
    /\ UNCHANGED <<exitCode, err, out, cliVars, fs, overwrote, config, stream, errs>>
    /\ UNCHANGED <<locked, wav, finalized, sigVars, cbVars, histVars>>

\* Line 97: if let Some(wav_writer) = guard.take().
TakeWriter ==
    /\ Alive /\ pc = "take"
    /\ sink' = "None"
    /\ pc' = IF sink = "Some" THEN "finalize" ELSE "saved"
    /\ UNCHANGED <<exitCode, err, out, cliVars, fs, overwrote, config, stream, errs>>
    /\ UNCHANGED <<locked, wav, finalized, sigVars, cbVars, histVars>>

\* Line 98: wav_writer.finalize()?; on Err the function returns, dropping its locals.
Finalize ==
    /\ Alive /\ pc = "finalize"
    /\ \/ /\ err' = "IoError"
          /\ pc' = "dropGuard"
          /\ finalized' = finalized
       \/ /\ finalized' = finalized + 1
          /\ pc' = "saved"
          /\ err' = err
    /\ UNCHANGED <<exitCode, out, cliVars, fs, overwrote, config, stream, errs>>
    /\ UNCHANGED <<sink, locked, wav, sigVars, cbVars, histVars>>

\* Line 100: println!("Saved: {}", filename).
PrintSaved ==
    /\ Alive /\ pc = "saved"
    /\ out' = Append(out, "Saved")
    /\ pc' = "dropGuard"
    /\ UNCHANGED <<exitCode, err, cliVars, fs, overwrote, config, stream, errs>>
    /\ UNCHANGED <<sinkVars, sigVars, cbVars, histVars>>

\* Line 103: locals drop in reverse order of declaration, the guard first.
DropGuard ==
    /\ Alive /\ pc = "dropGuard"
    /\ locked' = FALSE
    /\ pc' = "dropStream"
    /\ UNCHANGED <<exitCode, err, out, cliVars, fs, overwrote, config, stream, errs>>
    /\ UNCHANGED <<sink, wav, finalized, sigVars, cbVars, histVars>>

\* Line 103, then main lines 34-36: the stream is dropped and the process exits.
DropStream ==
    /\ Alive /\ pc = "dropStream"
    /\ stream' = "dropped"
    /\ pc' = "done"
    /\ exitCode' = IF err = "none" THEN 0 ELSE 1
    /\ UNCHANGED <<err, out, cliVars, fs, overwrote, config, errs>>
    /\ UNCHANGED <<sinkVars, sigVars, cbVars, histVars>>

(***************************************************************************)
(* The ctrlc handler, lines 60-62.  Before the handler is registered the   *)
(* signal has its default disposition and ends the process.                *)
(***************************************************************************)
\* Mutant of CtrlC: the handler flips the flag (fetch_xor) instead of storing false.
CtrlCToggle ==
    /\ Alive
    /\ interrupts < MaxInterrupts
    /\ interrupts' = interrupts + 1
    /\ IF handler
       THEN /\ running' = ~running
            /\ UNCHANGED <<pc, exitCode, err>>
       ELSE /\ pc' = "done"
            /\ exitCode' = 130
            /\ err' = "Interrupted"
            /\ running' = running
    /\ UNCHANGED <<out, cliVars, fs, overwrote, config, stream, errs, handler>>
    /\ UNCHANGED <<sinkVars, cbVars, histVars>>

CtrlC ==
    /\ Alive
    /\ interrupts < MaxInterrupts
    /\ interrupts' = interrupts + 1
    /\ IF handler
       THEN /\ running' = FALSE
            /\ UNCHANGED <<pc, exitCode, err>>
       ELSE /\ pc' = "done"
            /\ exitCode' = 130
            /\ err' = "Interrupted"
            /\ running' = running
    /\ UNCHANGED <<out, cliVars, fs, overwrote, config, stream, errs, handler>>
    /\ UNCHANGED <<sinkVars, cbVars, histVars>>

(***************************************************************************)
(* The input callback, lines 76-84, on the audio thread.  The host may     *)
(* start delivering buffers as soon as the stream is built.                *)
(***************************************************************************)
StreamLive == stream \in {"built", "playing"}

\* The host fills a buffer and calls the closure.
CbInvoke ==
    /\ Alive /\ StreamLive
    /\ cbpc = "idle"
    /\ callbacks < MaxCallbacks
    /\ \E buf \in Buffers : cbBuf' = buf
    /\ cbpc' = "lock"
    /\ callbacks' = callbacks + 1
    /\ cbAfterErr' = (errs > 0)
    /\ UNCHANGED <<cbIdx, cbOk>>
    /\ UNCHANGED <<ctlVars, cliVars, fs, overwrote, config, stream, errs>>
    /\ UNCHANGED <<sinkVars, sigVars, histVars>>

\* Mutant of CbLock: the closure enters without waiting for the mutex.
CbLockNoWait ==
    /\ Alive /\ cbpc = "lock"
    /\ IF sink = "Some"
       THEN /\ locked' = TRUE
            /\ cbpc' = "write"
            /\ cbIdx' = 1
            /\ cbOk' = 0
            /\ expected' = expected \o QuantizeAll(cbBuf)
            /\ cbBuf' = cbBuf
       ELSE /\ locked' = locked
            /\ cbpc' = "idle"
            /\ cbBuf' = <<>>
            /\ UNCHANGED <<cbIdx, cbOk, expected>>
    /\ UNCHANGED <<ctlVars, cliVars, fs, overwrote, config, stream, errs, callbacks, cbAfterErr>>
    /\ UNCHANGED <<sink, wav, finalized, sigVars, offered, failedWrites>>

\* Line 77: writer_clone.lock().unwrap() blocks until the mutex is free; then
\* if let Some(ref mut w): on None the guard is dropped and the closure returns.
CbLock ==
    /\ Alive /\ cbpc = "lock"
    /\ ~locked
    /\ IF sink = "Some"
       THEN /\ locked' = TRUE
            /\ cbpc' = "write"
            /\ cbIdx' = 1
            /\ cbOk' = 0
            /\ expected' = expected \o QuantizeAll(cbBuf)
            /\ cbBuf' = cbBuf
       ELSE /\ locked' = FALSE
            /\ cbpc' = "idle"
            /\ cbBuf' = <<>>
            /\ UNCHANGED <<cbIdx, cbOk, expected>>
    /\ UNCHANGED <<ctlVars, cliVars, fs, overwrote, config, stream, errs, callbacks>>
    /\ UNCHANGED <<sink, wav, finalized, sigVars, offered, failedWrites, cbAfterErr>>

\* Mutant of CbWrite: the loop walks the buffer from its end (data.iter().rev()).
CbWriteReversed ==
    /\ Alive /\ cbpc = "write"
    /\ cbIdx <= Len(cbBuf)
    /\ offered' = Append(offered, Quantize(cbBuf[Len(cbBuf) + 1 - cbIdx]))
    /\ \/ /\ wav' = Append(wav, Quantize(cbBuf[Len(cbBuf) + 1 - cbIdx]))
          /\ failedWrites' = failedWrites
          /\ cbOk' = cbOk + 1
       \/ /\ failedWrites < MaxWriteFailures
          /\ failedWrites' = failedWrites + 1
          /\ UNCHANGED <<wav, cbOk>>
    /\ cbIdx' = cbIdx + 1
    /\ UNCHANGED <<ctlVars, cliVars, fs, overwrote, config, stream, errs>>
    /\ UNCHANGED <<sink, locked, finalized, sigVars, cbpc, cbBuf, callbacks, cbAfterErr, expected>>

\* Lines 78-82: one iteration of the for loop; the Result of write_sample is dropped.
CbWrite ==
    /\ Alive /\ cbpc = "write"
    /\ cbIdx <= Len(cbBuf)
    /\ offered' = Append(offered, Quantize(cbBuf[cbIdx]))
    /\ \/ /\ wav' = Append(wav, Quantize(cbBuf[cbIdx]))
          /\ failedWrites' = failedWrites
          /\ cbOk' = cbOk + 1
       \/ /\ failedWrites < MaxWriteFailures
          /\ failedWrites' = failedWrites + 1
          /\ UNCHANGED <<wav, cbOk>>
    /\ cbIdx' = cbIdx + 1
    /\ UNCHANGED <<ctlVars, cliVars, fs, overwrote, config, stream, errs>>
    /\ UNCHANGED <<sink, locked, finalized, sigVars, cbpc, cbBuf, callbacks, cbAfterErr, expected>>

\* Mutant of CbReturn: the closure may return before the loop is over.
CbReturnEarly ==
    /\ Alive /\ cbpc = "write"
    /\ cbIdx >= 1
    /\ locked' = FALSE
    /\ cbpc' = "idle"
    /\ cbBuf' = <<>>
    /\ cbIdx' = 0
    /\ cbOk' = 0
    /\ UNCHANGED <<ctlVars, cliVars, fs, overwrote, config, stream, errs, callbacks, cbAfterErr>>
    /\ UNCHANGED <<sink, wav, finalized, sigVars, histVars>>

\* Mutant of CbReturn: the closure returns without releasing the guard (mem::forget).
CbReturnLeak ==
    /\ Alive /\ cbpc = "write"
    /\ cbIdx > Len(cbBuf)
    /\ locked' = locked
    /\ cbpc' = "idle"
    /\ cbBuf' = <<>>
    /\ cbIdx' = 0
    /\ cbOk' = 0
    /\ UNCHANGED <<ctlVars, cliVars, fs, overwrote, config, stream, errs, callbacks, cbAfterErr>>
    /\ UNCHANGED <<sink, wav, finalized, sigVars, histVars>>

\* Lines 83-84: the loop is over, the guard is dropped, the closure returns.
CbReturn ==
    /\ Alive /\ cbpc = "write"
    /\ cbIdx > Len(cbBuf)
    /\ locked' = FALSE
    /\ cbpc' = "idle"
    /\ cbBuf' = <<>>
    /\ cbIdx' = 0
    /\ cbOk' = 0
    /\ UNCHANGED <<ctlVars, cliVars, fs, overwrote, config, stream, errs, callbacks, cbAfterErr>>
    /\ UNCHANGED <<sink, wav, finalized, sigVars, histVars>>

\* Mutant of ErrorCallback: a stream error also clears the stop flag.
ErrorCallbackStops ==
    /\ Alive /\ StreamLive
    /\ errs < MaxStreamErrors
    /\ errs' = errs + 1
    /\ running' = FALSE
    /\ UNCHANGED <<ctlVars, cliVars, fs, overwrote, config, stream, handler, interrupts>>
    /\ UNCHANGED <<sinkVars, cbVars, histVars>>

\* Mutant of ErrorCallback: a stream error ends the process (process::exit(1)).
ErrorCallbackExits ==
    /\ Alive /\ StreamLive
    /\ errs < MaxStreamErrors
    /\ errs' = errs + 1
    /\ Fail("StreamError")
    /\ UNCHANGED <<out, cliVars, fs, overwrote, config, stream>>
    /\ UNCHANGED <<sinkVars, sigVars, cbVars, histVars>>

\* Line 85: |err| eprintln!("Stream error: {:?}", err).
ErrorCallback ==
    /\ Alive /\ StreamLive
    /\ errs < MaxStreamErrors
    /\ errs' = errs + 1
    /\ UNCHANGED <<ctlVars, cliVars, fs, overwrote, config, stream>>
    /\ UNCHANGED <<sinkVars, sigVars, cbVars, histVars>>

(***************************************************************************)
(* The program.                                                            *)
(***************************************************************************)
Next ==
    \/ ParseArgs
    \/ PrintInputDeviceList
    \/ EnumerateDevices
    \/ SelectDevice
    \/ MakeUniqueExists
    \/ MakeUniqueProbe
    \/ PrintSelected
    \/ Negotiate
    \/ CreateWriter
    \/ SetHandler
    \/ AnnounceRecording
    \/ BuildInputStream
    \/ StreamPlay
    \/ RunLoopLoad
    \/ RunLoopSleep
    \/ LockWriter
    \/ TakeWriter
    \/ Finalize
    \/ PrintSaved
    \/ DropGuard
    \/ DropStream
    \/ CtrlC
    \/ CbInvoke
    \/ CbLock
    \/ CbWrite
    \/ CbReturn
    \/ ErrorCallback

Spec == Init /\ [][Next]_vars

(***************************************************************************)
(* Scheduling.  The control thread and the audio thread are operating      *)
(* system threads: a thread that can take a step eventually takes it.      *)
(* lock() is enabled only while the mutex is free; the callback frees it   *)
(* at the end of every buffer, and a thread waiting at lock() gets the     *)
(* mutex at one of those moments (strong fairness).  Nothing is assumed    *)
(* about the host delivering buffers, errors or interrupts.                *)
(***************************************************************************)
FairSpec ==
    /\ Spec
    /\ WF_vars(AnnounceRecording)
    /\ WF_vars(BuildInputStream)
    /\ WF_vars(StreamPlay)
    /\ WF_vars(RunLoopLoad)
    /\ WF_vars(RunLoopSleep)
    /\ SF_vars(LockWriter)
    /\ WF_vars(TakeWriter)
    /\ WF_vars(Finalize)
    /\ WF_vars(PrintSaved)
    /\ WF_vars(DropGuard)
    /\ WF_vars(DropStream)
    /\ WF_vars(CbLock)
    /\ WF_vars(CbWrite)
    /\ WF_vars(CbReturn)

(***************************************************************************)
(* The recorder next to other processes, which may create files between    *)
(* the exists() probes of make_unique_filename and WavWriter::create.      *)
(***************************************************************************)
EnvPaths == { P("", "a", <<>>, "wav"), P("", "a", <<1>>, "wav") }

EnvCreate ==
    /\ Alive /\ pc \in {"unique", "probe", "print", "negotiate", "create"}
    /\ \E path \in EnvPaths \ fs : fs' = fs \cup {path}
    /\ UNCHANGED <<ctlVars, cliVars, overwrote, config, stream, errs>>
    /\ UNCHANGED <<sinkVars, sigVars, cbVars, histVars>>

RaceNext ==
    \/ Next
    \/ EnvCreate

RaceSpec == Init /\ [][RaceNext]_vars

(***************************************************************************)
(* The conversion of one sample on its own: the stream is playing, the     *)
(* sink is open, and the host has invoked the input callback with a buffer *)
(* that holds one f32 of any kind.                                         *)
(***************************************************************************)
SampleInputs == (-16..16) \cup {NaN, PosInf, NegInf}

QuantInit ==
    /\ pc = "loop"
    /\ exitCode = -1
    /\ err = "none"
    /\ out = <<"Selected device", "Output file", "Recording">>
    /\ args = NoArgs
    /\ devices = <<>>
    /\ device = UsbMic
    /\ file = P("", "a", <<>>, "wav")
    /\ filename = P("", "a", <<>>, "wav")
    /\ i = 0
    /\ fs = { P("", "a", <<>>, "wav") }
    /\ overwrote = FALSE
    /\ config = "F32"
    /\ sink = "Some"
    /\ locked = FALSE
    /\ wav = <<>>
    /\ finalized = 0
    /\ running = TRUE
    /\ handler = TRUE
    /\ interrupts = 0
    /\ stream = "playing"
    /\ cbpc = "lock"
    /\ \E sample \in SampleInputs : cbBuf = <<sample>>
    /\ cbIdx = 0
    /\ cbOk = 0
    /\ callbacks = 1
    /\ errs = 0
    /\ offered = <<>>
    /\ expected = <<>>
    /\ failedWrites = 0
    /\ cbAfterErr = FALSE

QuantNext ==
    \/ CbLock
    \/ CbWrite
    \/ CbReturn

QuantSpec == QuantInit /\ [][QuantNext]_vars

(***************************************************************************)
(* make_unique_filename on its own: main has parsed the arguments and      *)
(* selected a device, and calls the function with the requested path on a  *)
(* file system that holds any of the entries below; ".." always exists.    *)
(***************************************************************************)
UniqueFiles ==
    { P("", "a", <<>>, "wav"), P("d", "a", <<>>, "wav"), P("", "a", <<>>, ""),
      P("", "a", <<1>>, "wav"), DotDot }

UniqueEntries ==
    { P("", "a", <<>>, "wav"), P("d", "a", <<>>, "wav"), P("", "a", <<>>, ""),
      P("", "a", <<1>>, "wav"), P("", "a", <<2>>, "wav"), P("d", "a", <<1>>, "wav") }

UniqueInit ==
    /\ pc = "unique"
    /\ exitCode = -1
    /\ err = "none"
    /\ out = <<>>
    /\ args = NoArgs
    /\ devices = <<>>
    /\ device = UsbMic
    /\ file \in UniqueFiles
    /\ filename = NoPath
    /\ i = 0
    /\ \E entries \in SUBSET UniqueEntries : fs = entries \cup {DotDot}
    /\ overwrote = FALSE
    /\ config = "unset"
    /\ sink = "Absent"
    /\ locked = FALSE
    /\ wav = <<>>
    /\ finalized = 0
    /\ running = TRUE
    /\ handler = FALSE
    /\ interrupts = 0
    /\ stream = "none"
    /\ cbpc = "idle"
    /\ cbBuf = <<>>
    /\ cbIdx = 0
    /\ cbOk = 0
    /\ callbacks = 0
    /\ errs = 0
    /\ offered = <<>>
    /\ expected = <<>>
    /\ failedWrites = 0
    /\ cbAfterErr = FALSE

UniqueNext ==
    \/ MakeUniqueExists
    \/ MakeUniqueProbe

UniqueSpec == UniqueInit /\ [][UniqueNext]_vars

\* The function runs on the main thread, which keeps running.
UniqueFairSpec == UniqueSpec /\ WF_vars(UniqueNext)

(***************************************************************************)
(* The session states of the capture session.                              *)
(***************************************************************************)
Streaming == pc \in {"loop", "sleep"}
Stopping == pc \in {"lock", "take", "finalize"}
Finalized == finalized > 0
Announced == \E k \in 1..Len(out) : out[k] = "Recording"
StoppingSaid == \E k \in 1..Len(out) : out[k] = "Stopping and saving"

\* The threads inside the critical section of the writer mutex.
CbInside == cbpc = "write"
MainInside == pc \in {"take", "finalize", "saved", "dropGuard"}

(***************************************************************************)
(* C1: at most one thread is inside the writer's critical section; a       *)
(* callback that is appending holds the mutex and sees Some, so the take   *)
(* never happens in the middle of a buffer.                                *)
(***************************************************************************)
C1_MutualExclusion ==
    /\ ~(CbInside /\ MainInside)
    /\ (CbInside => locked /\ sink = "Some")
    /\ (MainInside => locked)
    /\ (locked => CbInside \/ MainInside)

\* The control thread waits at lock() while the callback is in the middle of a buffer.
C1_Witness == pc = "lock" /\ cbpc = "write" /\ cbIdx = 2 /\ Len(cbBuf) = 2

(***************************************************************************)
(* C2: the sink goes from Some to None once, at the take, and stays None;  *)
(* the file is finalized at most once; once the sink is None no sample is  *)
(* handed to the writer or appended.                                       *)
(***************************************************************************)
C2_TakeOnce ==
    /\ [](pc \in {"finalize", "saved", "dropGuard", "dropStream"} => sink = "None")
    /\ [](finalized <= 1)
    /\ [][ /\ (sink = "None" => sink' = "None")
           /\ (sink # "None" /\ sink' = "None" => sink = "Some" /\ pc = "take")
           /\ (sink = "None" => wav' = wav /\ offered' = offered)
           /\ (finalized' # finalized => finalized = 0 /\ sink = "None") ]_vars

\* After the take and the release of the guard a callback with a non-empty
\* buffer is at lock(): it will find None.
C2_Witness ==
    /\ sink = "None" /\ finalized = 1 /\ ~locked
    /\ cbpc = "lock" /\ Len(cbBuf) = 2

(***************************************************************************)
(* C3: a finalized session went through the interrupt and Stopping, and    *)
(* the file holds the samples of the buffers the sink accepted before the  *)
(* take.  As stated (C3_Original) the count is the sum of the lengths of   *)
(* those buffers; the code drops the Result of write_sample, so a sample   *)
(* whose write failed is missing from the file.  C3_Amended: the count is  *)
(* that sum less the failed writes, and nothing is added after the take.   *)
(***************************************************************************)
C3_Original == Finalized => Len(wav) = Len(expected)

C3_Amended ==
    /\ [](Finalized => /\ Len(wav) = Len(expected) - failedWrites
                       /\ StoppingSaid /\ interrupts > 0 /\ ~running
                       /\ sink = "None")
    /\ [][Finalized => wav' = wav /\ expected' = expected]_vars

\* A finalized file that holds the three samples of two accepted buffers.
C3_Witness ==
    /\ Finalized /\ pc = "done" /\ exitCode = 0
    /\ callbacks = 2 /\ Len(expected) = 3 /\ Len(wav) = 3

(***************************************************************************)
(* C4: the writer is handed, in order, the quantization of every sample of *)
(* every buffer whose invocation found the sink present.  As stated        *)
(* (C4_Original) the file content is the concatenation of the quantized    *)
(* buffers; a failed write_sample leaves its sample out.  C4_Amended: the  *)
(* samples handed over are exactly the concatenation (up to the position   *)
(* of the running invocation), and the file is that sequence without the   *)
(* samples whose write failed, in the same order.                          *)
(***************************************************************************)
RECURSIVE IsSubseq(_, _)
IsSubseq(a, b) ==
    IF a = <<>> THEN TRUE
    ELSE IF b = <<>> THEN FALSE
    ELSE IF Head(a) = Head(b) THEN IsSubseq(Tail(a), Tail(b))
    ELSE IsSubseq(a, Tail(b))

\* Samples of the running invocation not yet handed to the writer.
Remaining == IF cbpc = "write" THEN Len(cbBuf) + 1 - cbIdx ELSE 0

C4_Original ==
    /\ offered = SubSeq(expected, 1, Len(expected) - Remaining)
    /\ wav = offered

C4_Amended ==
    /\ offered = SubSeq(expected, 1, Len(expected) - Remaining)
    /\ IsSubseq(wav, offered)
    /\ Len(wav) = Len(offered) - failedWrites

\* Two invocations, a one-sample and a two-sample buffer, all written.
C4_Witness ==
    /\ callbacks = 2 /\ cbpc = "idle" /\ failedWrites = 0
    /\ wav = <<Quantize(2), Quantize(-3), Quantize(6)>>

(***************************************************************************)
(* C5: the callback never waits for the control thread.  The code calls    *)
(* Mutex::lock (line 77), which blocks while the control thread holds the  *)
(* guard across take, finalize and the last println (lines 96-103).        *)
(***************************************************************************)
C5_NeverBlocks == ~(cbpc = "lock" /\ locked /\ MainInside)

(***************************************************************************)
(* C6: the session leaves Streaming only for Stopping, and only with the   *)
(* stop flag cleared; the flag is cleared only by an interrupt delivered   *)
(* to the registered handler; a finalized session stays finalized and      *)
(* never streams again.                                                    *)
(***************************************************************************)
C6_OnlyInterruptStops ==
    [][ /\ (Streaming /\ ~Streaming' => Stopping' /\ ~running /\ interrupts > 0)
        /\ (running /\ ~running' => handler /\ interrupts' = interrupts + 1)
        /\ (Finalized => Finalized' /\ ~Streaming') ]_vars

\* Still streaming, flag set, after a failed write and a stream error.
C6_Witness ==
    /\ Streaming /\ running /\ interrupts = 0
    /\ failedWrites > 0 /\ errs > 0 /\ callbacks = 2 /\ cbpc = "idle"

(***************************************************************************)
(* C7: a stream error changes nothing but the error log: flag, sink,       *)
(* mutex, file, stream, both threads' positions and the exit status stay   *)
(* as they are; and whenever the session has left the run loop after an    *)
(* error, an interrupt had arrived.                                        *)
(***************************************************************************)
C7_ErrorOnlyLogs ==
    /\ [][errs' # errs =>
            UNCHANGED <<pc, exitCode, err, out, running, handler, interrupts,
                        sink, locked, wav, finalized, stream, fs, overwrote,
                        cbpc, cbBuf, cbIdx, cbOk, callbacks, offered, expected>>]_vars
    /\ [](errs > 0 /\ (Stopping \/ sink = "None") => interrupts > 0 /\ ~running)

\* An invocation that began after a stream error has appended its first sample
\* while the session is streaming.
C7_Witness ==
    /\ errs > 0 /\ cbAfterErr /\ Streaming /\ running
    /\ cbpc = "write" /\ cbIdx = 2 /\ failedWrites = 0 /\ Len(wav) > 0

(***************************************************************************)
(* C8: under fair scheduling an interrupt delivered while Streaming leads  *)
(* to the sink taken and the file finalized, or to a finalize IoError; the *)
(* control thread does not wait for the mutex forever.                     *)
(***************************************************************************)
C8_InterruptFinalizes ==
    /\ (Streaming /\ ~running) ~> (sink = "None" /\ (Finalized \/ err = "IoError"))
    /\ (pc = "lock") ~> (pc = "take")

\* The interrupt has arrived while the callback is in the middle of a buffer.
C8_Witness == Streaming /\ ~running /\ cbpc = "write" /\ cbIdx = 2 /\ Len(cbBuf) = 2

(***************************************************************************)
(* C9: a default input format other than f32 ends the run with             *)
(* UnsupportedFormat before the writer and its file are created, before    *)
(* the handler is registered, before "Recording" and before any stream.    *)
(***************************************************************************)
C9_UnsupportedFormat ==
    config \notin {"unset", "F32"} =>
        /\ pc = "done" /\ exitCode = 1 /\ err = "UnsupportedFormat"
        /\ sink = "Absent" /\ filename \notin fs
        /\ ~handler /\ stream = "none" /\ ~Announced
        /\ callbacks = 0 /\ wav = <<>>

C9_Witness == config = "I16" /\ pc = "done" /\ filename # NoPath

(***************************************************************************)
(* C10: a run that fails before it streams has not announced "Recording".  *)
(* The code prints "Recording..." (line 65) before build_input_stream      *)
(* (line 74) and play (line 89), whose failures end the run.               *)
(***************************************************************************)
C10_FailsBeforeAnnounce ==
    (pc = "done" /\ exitCode = 1 /\ sink # "None") => ~Announced

(***************************************************************************)
(* C13.  Device selection.                                                 *)
(***************************************************************************)
\* The step that ends filter(..).next().ok_or(..)?: it yields the first device,
\* in enumeration order, whose readable name contains the query when both are
\* lowercased, it fails with NoMatchingDevice when there is none, and it
\* touches nothing but the locals of the selection.
SelectionStep ==
    (pc = "filter" /\ (pc' = "unique" \/ exitCode' = 1)) =>
        /\ \A q \in args.device :
              LET hits == { k \in 1..Len(devices) :
                              /\ devices[k].nameOk
                              /\ contains(to_lowercase(devices[k].name), to_lowercase(q)) }
              IN  /\ hits = {} => (pc' = "done" /\ err' = "NoMatchingDevice")
                  /\ hits # {} =>
                        /\ pc' = "unique"
                        /\ \E k \in hits : /\ \A j \in hits : k <= j
                                           /\ device' = devices[k]
        /\ UNCHANGED <<out, fs, overwrote, config, stream, errs, filename, i>>
        /\ UNCHANGED <<sinkVars, sigVars, cbVars, histVars>>

\* C13 as stated: the selection returns the first case-insensitive match in
\* enumeration order without side effects, and its failure is NoMatchingDevice
\* both when no device matches and when the enumeration itself fails.
C13_Original ==
    [][ /\ SelectionStep
        /\ (pc = "select" /\ exitCode' = 1) => err' = "NoMatchingDevice" ]_vars

\* C13 amended: the selection returns the first case-insensitive match in
\* enumeration order without side effects and fails with NoMatchingDevice when
\* no device matches; a failing enumeration is reported as EnumerationError.
C13_Amended ==
    [][ /\ SelectionStep
        /\ (pc = "select" /\ exitCode' = 1) =>
              (err' = "EnumerationError" /\ device' = NoDevice) ]_vars

\* An unreadable device was skipped and the first of two matches was returned.
C13_Witness == pc = "unique" /\ device = BuiltIn

(***************************************************************************)
(* C11, C18, C20.  make_unique_filename.                                   *)
(***************************************************************************)
\* The name stem_k.ext of a requested path, ext being wav when it has none,
\* in directory d.
Disambiguated(path, k, d) ==
    P(d, path.base, Append(path.sfx, k), IF path.ext = "" THEN "wav" ELSE path.ext)

\* C11: make_unique_filename returns the requested path unchanged when nothing
\* exists at it, and otherwise stem_k.ext for the smallest k >= 1 whose name
\* does not exist, stem_1.ext .. stem_(k-1).ext all existing; in every case it
\* returns, and the returned path does not exist at the time of the call.
C11_ReturnsFreshPath ==
    /\ pc # "done"
    /\ pc = "print" =>
          /\ filename \notin fs
          /\ IF file \notin fs
             THEN filename = file
             ELSE \E k \in 1..(Cardinality(fs) + 1) :
                     /\ filename = Disambiguated(file, k, filename.dir)
                     /\ \A j \in 1..(k - 1) : Disambiguated(file, j, filename.dir) \in fs

\* C18: make_unique_filename terminates on a finite file system: a probe whose
\* candidate exists increases the counter by one and probes again, the first
\* probe whose candidate does not exist returns it, and the loop is left.
C18_ProbeTerminates ==
    /\ [][pc = "probe" =>
             IF Candidate(file, i) \in fs
             THEN i' = i + 1 /\ pc' = "probe"
             ELSE pc' = "print" /\ filename' = Candidate(file, i)]_vars
    /\ (pc = "probe") ~> (pc = "print" /\ filename \notin fs)

\* The loop returned at its third probe.
C18_Witness == pc = "print" /\ i = 3 /\ filename = Candidate(file, 3)

\* C20: when the requested path exists, the returned path is stem_k.ext in the
\* directory of the requested path.
C20_SameDirectory ==
    (pc = "print" /\ file \in fs) =>
        \E k \in 1..(Cardinality(fs) + 1) : filename = Disambiguated(file, k, file.dir)

(***************************************************************************)
(* C12.  Creation of the output file.                                      *)
(***************************************************************************)
\* C12: the recorder never overwrites an existing file: in every run, other
\* processes creating files included, the path WavWriter::create opens did not
\* exist at the moment of creation.
C12_NeverOverwrites == ~overwrote

(***************************************************************************)
(* C14.  Quantization.                                                     *)
(***************************************************************************)
\* C14: for every input sample s, clamping to [-1, 1], scaling by 32767 and
\* truncating toward zero yields an integer of the 16-bit signed range: the
\* scaled value is in range before the cast, s >= 1.0 yields 32767,
\* s <= -1.0 yields -32767, a sample in between yields its scaled value
\* truncated toward zero, and nothing else reaches the sink.
C14_QuantizeInRange ==
    /\ \A k \in 1..Len(offered) : offered[k] \in I16Min..I16Max
    /\ (cbpc = "write" /\ cbIdx = 1 /\ Len(cbBuf) = 1) =>
          /\ Clamp(cbBuf[1]) * I16Max >= 4 * I16Min
          /\ Clamp(cbBuf[1]) * I16Max <= 4 * I16Max
    /\ (cbpc = "write" /\ cbIdx = 2 /\ Len(cbBuf) = 1 /\ callbacks = 1) =>
          LET s == cbBuf[1]
              q == offered[1]
          IN  /\ Len(offered) = 1
              /\ wav \in {<<>>, <<q>>}
              /\ (s # NaN /\ s >= 4) => q = 32767
              /\ (s # NaN /\ s <= -4) => q = -32767
              /\ (s >= 0 /\ s < 4) => (4 * q <= s * 32767 /\ s * 32767 < 4 * (q + 1))
              /\ (s < 0 /\ s > -4) => (4 * (q - 1) < s * 32767 /\ s * 32767 <= 4 * q)

\* An out-of-range sample (-1.25) has been converted and stored.
C14_Witness ==
    cbpc = "write" /\ cbIdx = 2 /\ cbBuf = <<-5>> /\ wav = <<-32767>>

(***************************************************************************)
(* C15.  Command-line dispatch.  A process killed by an interrupt before   *)
(* the handler exists has not exited by itself and is left out.            *)
(***************************************************************************)
NeitherGiven == args.device = {} /\ args.file = {} /\ Len(out) > 0 /\ out[1] = "Usage"
OneGiven == (args.device = {}) # (args.file = {})
Listed == \E k \in 1..Len(out) : out[k] = "Input audio device list"
NothingCreated == sink = "Absent" /\ stream = "none" /\ fs \in InitialFs

\* What C15 says of the three cases apart from the exit status of the listing:
\* neither option leads to the listing and to no file or stream; exactly one
\* is a usage error with status 1, no enumeration and no file; device
\* selection and capture happen only with both.
Dispatch ==
    /\ NeitherGiven => (pc \in {"list", "done"} /\ NothingCreated /\ device = NoDevice)
    /\ OneGiven =>
          /\ pc = "done" /\ exitCode = 1 /\ err = "UsageError"
          /\ devices = <<>> /\ ~Listed /\ NothingCreated /\ device = NoDevice
    /\ (pc \in {"select", "filter"}) => (args.device # {} /\ args.file # {})
    /\ (device # NoDevice \/ ~NothingCreated) =>
          (device # NoDevice /\ file # NoPath /\ ~Listed)
    /\ pc = "list" => NeitherGiven

\* C15 as stated: with neither option the program lists the devices and exits
\* successfully without creating a file or stream; with exactly one it
\* reports a usage error and exits non-zero without enumerating or creating;
\* only with both does it go on to device selection and capture.
C15_Original ==
    /\ Dispatch
    /\ (NeitherGiven /\ pc = "done" /\ err # "Interrupted") => (Listed /\ exitCode = 0)

\* C15 amended: as C15, except that with neither option the program exits
\* successfully when the device list was printed and fails with the
\* enumeration error, nothing listed, when the host cannot enumerate.
C15_Amended ==
    /\ Dispatch
    /\ (NeitherGiven /\ pc = "done" /\ err # "Interrupted") =>
          \/ Listed /\ exitCode = 0 /\ err = "none"
          \/ ~Listed /\ exitCode = 1 /\ err = "EnumerationError"

\* The run without options has printed the list and exited with status 0.
C15_Witness == NeitherGiven /\ pc = "done" /\ Listed /\ exitCode = 0

(***************************************************************************)
(* C16.  One buffer against take and finalize.                             *)
(***************************************************************************)
\* The step on which an invocation of the input callback returns, and the
\* number of samples of its buffer that the sink has stored.
CbReturns == cbpc # "idle" /\ cbpc' = "idle"
Stored == IF cbpc = "write" THEN cbOk ELSE 0

\* C16 as stated: of a buffer of N samples either N or 0 end up in the sink,
\* never a proper prefix or subset, whatever the interleaving with take and
\* finalize and whatever per-sample write failures occur.
C16_Original == [][CbReturns => Stored \in {0, Len(cbBuf)}]_vars

\* C16 amended: whatever the interleaving with take and finalize, either the
\* sink was gone and nothing of the buffer is handed to it, or all N samples
\* are handed to write_sample, in order, while the sink is present and not
\* being taken; the samples that end up in the sink are the N handed ones
\* less those whose write failed.
C16_Amended ==
    /\ [](cbpc = "write" =>
            /\ sink = "Some" /\ ~MainInside
            /\ cbIdx - 1 <= Len(offered)
            /\ \A k \in 1..(cbIdx - 1) :
                  offered[Len(offered) - (cbIdx - 1) + k] = Quantize(cbBuf[k])
            /\ cbOk <= cbIdx - 1
            /\ (cbIdx - 1) - cbOk <= failedWrites
            /\ failedWrites = 0 => cbOk = cbIdx - 1)
    /\ [][CbReturns =>
            IF cbpc = "lock"
            THEN sink # "Some" /\ UNCHANGED <<wav, offered>>
            ELSE cbIdx = Len(cbBuf) + 1 /\ UNCHANGED <<wav, offered>>]_vars

\* A buffer of two samples is about to return with one of them stored, the
\* control thread waiting at lock() for the take.
C16_Witness ==
    cbpc = "write" /\ cbIdx = 3 /\ Len(cbBuf) = 2 /\ cbOk = 1 /\ pc = "lock"

(***************************************************************************)
(* C17.  The stop flag.                                                    *)
(***************************************************************************)
\* C17: the stop flag is one-shot and monotonic: it is true until the handler
\* is registered, the only step that changes it is the interrupt handler,
\* which stores false and does nothing else, it is never true again once
\* false, and a further interrupt leaves every other part of the state as it
\* was.
C17_FlagMonotonic ==
    /\ [](~handler => running)
    /\ [][ /\ ~running => ~running'
           /\ (running' # running \/ (handler /\ interrupts' # interrupts)) =>
                 /\ handler /\ ~running'
                 /\ interrupts' = interrupts + 1
                 /\ UNCHANGED <<ctlVars, cliVars, fs, overwrote, config, stream, errs,
                                handler, sinkVars, cbVars, histVars>> ]_vars

\* A second interrupt has been handled during the run loop, the flag already false.
C17_Witness == Streaming /\ handler /\ ~running /\ interrupts = 2

(***************************************************************************)
(* C19.  An interrupt between the registration of the handler and the      *)
(* first check of the run loop.                                            *)
(***************************************************************************)
EarlyInterrupt == pc \in {"announce", "build", "play"} /\ handler /\ ~running
StartFailed == err \in {"BuildStreamError", "PlayStreamError"}

\* C19 as stated: once the handler has cleared the flag, also before the run
\* loop polls, the flag stays cleared, the run loop exits on its check, and the
\* session takes and finalizes the sink: the run ends with a finalized file
\* that holds exactly the samples accepted until the take.
C19_Original ==
    /\ [][~running => ~running']_vars
    /\ [][(pc = "loop" /\ ~running) => pc' \in {"loop", "lock"}]_vars
    /\ []((pc = "done" /\ ~running) => (Finalized /\ wav = expected))

\* C19 amended: after such an interrupt the flag stays cleared; unless the
\* build or the start of the stream fails, which ends the run with that error,
\* the run loop exits on its first check without sleeping and the session
\* takes the sink and finalizes it, or reports the IoError of finalize; a
\* finalized file holds, in order, the samples accepted until the take whose
\* write succeeded.
C19_Amended ==
    /\ [][~running => ~running']_vars
    /\ [][(pc = "loop" /\ ~running) => pc' \in {"loop", "lock"}]_vars
    /\ [][(EarlyInterrupt /\ pc' # pc) =>
             (pc' \in {"build", "play", "loop"} \/ (pc' = "done" /\ StartFailed'))]_vars
    /\ EarlyInterrupt ~> (StartFailed \/ (sink = "None" /\ (Finalized \/ err = "IoError")))
    /\ [](Finalized => /\ IsSubseq(wav, expected)
                       /\ Len(wav) = Len(expected) - failedWrites)

\* The flag was cleared before stream.play(), while the callback of the built
\* stream is writing a buffer.
C19_Witness == EarlyInterrupt /\ pc = "play" /\ cbpc = "write" /\ cbIdx = 2

============================================================================
